---- MODULE Spec2Model ----
(***************************************************************************)
(* Sitemap generator (src/server.js): URL normalisation, same-host scope,  *)
(* the recursive crawl, the sitemap write and the hourly scheduler.        *)
(*                                                                         *)
(* A string is a sequence of tokens.  The first token of an absolute URL   *)
(* is its scheme with "://", the second its host; every later token is one *)
(* character of the path, query or fragment.                               *)
(***************************************************************************)
EXTENDS Integers, Sequences, FiniteSets, TLC

\* ------------------------------------------------------------------------
\* Bounds of the model
\* ------------------------------------------------------------------------

\* number of calls of generateSitemapFile (the startup call and the ticks)
MaxRuns == 2

\* longest tail (tokens after the host) of the strings given to normalizeUrl
MaxTail == 3

\* ------------------------------------------------------------------------
\* Strings and the WHATWG URL object (new URL(s), .hash = '', .href, .hostname)
\* ------------------------------------------------------------------------

Schemes == {"http://", "https://"}

Hosts == {"a.test", "b.test", "sub.a.test"}

\* the characters that end the host / the path / the query
Delims == {"/", "?", "#"}

\* normalizeUrl returns null on a parse error (line 35)
Null == <<>>

\* index of the first token of s at or after i that lies in set T, else Len(s)+1
RECURSIVE FirstIn(_, _, _)
FirstIn(s, i, T) ==
    IF i > Len(s) THEN Len(s) + 1
    ELSE IF s[i] \in T THEN i
    ELSE FirstIn(s, i + 1, T)

\* new URL(s) throws unless s is an absolute URL: scheme, host, then nothing
\* or a path, query or fragment
IsValidURL(s) ==
    /\ Len(s) >= 2
    /\ s[1] \in Schemes
    /\ s[2] \in Hosts
    /\ (Len(s) >= 3 => s[3] \in Delims)

\* new URL(s): the URL record.  A missing query or fragment is distinguished
\* from an empty one (hasQuery, hasHash) because href keeps a bare "?" or "#".
ParseURL(s) ==
    LET q == FirstIn(s, 3, {"?", "#"})
        h == FirstIn(s, 3, {"#"})
    IN  [ scheme   |-> s[1],
          hostname |-> s[2],
          pathname |-> SubSeq(s, 3, q - 1),
          hasQuery |-> q <= Len(s) /\ s[q] = "?",
          search   |-> IF q <= Len(s) /\ s[q] = "?" THEN SubSeq(s, q + 1, h - 1) ELSE <<>>,
          hasHash  |-> h <= Len(s),
          hash     |-> SubSeq(s, h + 1, Len(s)) ]

\* urlObj.href: the serialisation; the path of an http(s) URL is never empty
Href(u) ==
    <<u.scheme, u.hostname>>
      \o (IF u.pathname = <<>> THEN <<"/">> ELSE u.pathname)
      \o (IF u.hasQuery THEN <<"?">> \o u.search ELSE <<>>)
      \o (IF u.hasHash THEN <<"#">> \o u.hash ELSE <<>>)

\* urlObj.hash = '' removes the fragment and its "#"
ClearHash(u) == [u EXCEPT !.hasHash = FALSE, !.hash = <<>>]

\* String.prototype.endsWith('/')
EndsWithSlash(s) == Len(s) > 0 /\ s[Len(s)] = "/"

\* normalized.slice(0, -1)
DropLast(s) == SubSeq(s, 1, Len(s) - 1)

\* a mutant of StripTrailing: the trailing "/" is kept
StripTrailingNever(s) == s

\* lines 30-32: one trailing "/" is removed
StripTrailing(s) == IF EndsWithSlash(s) THEN DropLast(s) ELSE s

\* normalizeUrl (lines 25-37)
normalizeUrl(url) ==
    IF ~IsValidURL(url) THEN Null
    ELSE StripTrailing(Href(ClearHash(ParseURL(url))))

\* a mutant of isSameDomain: every parseable URL is in scope
isSameDomainAnyHost(url, baseDomain) == IsValidURL(url) /\ IsValidURL(baseDomain)

\* a mutant of isSameDomain: a subdomain of the root's host is in scope
isSameDomainSubdomain(url, baseDomain) ==
    /\ IsValidURL(url)
    /\ IsValidURL(baseDomain)
    /\ \/ ParseURL(url).hostname = ParseURL(baseDomain).hostname
       \/ ParseURL(url).hostname = "sub.a.test" /\ ParseURL(baseDomain).hostname = "a.test"

\* isSameDomain (lines 40-48)
isSameDomain(url, baseDomain) ==
    /\ IsValidURL(url)
    /\ IsValidURL(baseDomain)
    /\ ParseURL(url).hostname = ParseURL(baseDomain).hostname

\* ------------------------------------------------------------------------
\* Configuration and the crawled web
\* ------------------------------------------------------------------------

\* the page https://a.test/<c>
PA(c) == <<"https://", "a.test", "/", c>>

RootG == PA("g")

RootA == <<"https://", "a.test">>

\* config.subdomains (lines 9-18): the ordered list of crawl roots.  As in
\* the source, the first root is a page of the site of a later root.
subdomains == <<RootG, RootA>>

\* the path characters of the pages of the "chain" web, in link order
ChainTok == <<"a", "b", "c", "d", "e", "f", "h", "i", "j", "k", "l">>

\* position of path character c in ChainTok, 0 if absent
ChainPos(c) ==
    IF \E k \in 1..Len(ChainTok) : ChainTok[k] = c
    THEN CHOOSE k \in 1..Len(ChainTok) : ChainTok[k] = c
    ELSE 0

\* the webs the crawler is run against
Webs == {"mixed"}

SoloWebs == {"mixed", "chain", "slashes", "assets"}

\* The hrefs found in the HTML served at the normalized URL u, in document
\* order, already resolved against u.
\*   mixed:   a.test/g -> a.test/;   a.test/x -> nothing;
\*            a.test -> a.test/x/, b.test/y, a.test/x#f, "http://" (which
\*                      new URL rejects), a.test/g (a cycle)
\*   slashes: a.test/g -> a.test/x//
\*   chain:   a.test -> /a -> /b -> ... -> /l -> a.test (a cycle of 12 pages)
\*   assets:  a.test/g -> a.test/x.png, a.test/y#f
Page(w, u) ==
    CASE w = "mixed" /\ u = RootG -> << RootA \o <<"/">> >>
      [] w = "mixed" /\ u = RootA ->
            << PA("x") \o <<"/">>, <<"https://", "b.test", "/", "y">>,
               PA("x") \o <<"#", "f">>, <<"http://">>, RootG >>
      [] w = "slashes" /\ u = RootG -> << PA("x") \o <<"/", "/">> >>
      [] w = "assets" /\ u = RootG ->
            << PA("x") \o <<".png">>, PA("y") \o <<"#", "f">> >>
      [] w = "chain" /\ u = RootA -> << PA(ChainTok[1]) >>
      [] w = "chain" /\ u # RootG /\ Len(u) = 4 /\ u[2] = "a.test" /\ ChainPos(u[4]) > 0 ->
            IF ChainPos(u[4]) < Len(ChainTok)
            THEN << PA(ChainTok[ChainPos(u[4]) + 1]) >>
            ELSE << RootA >>
      [] OTHER -> << >>

\* ------------------------------------------------------------------------
\* Sorting and the sitemap document
\* ------------------------------------------------------------------------

\* order of the characters compared by Array.prototype.sort (UTF-16 code units;
\* for a scheme or a host, of its first character that differs)
Rank(t) ==
    CASE t = "http://" -> 1 [] t = "https://" -> 2
      [] t = "a.test" -> 3 [] t = "b.test" -> 4 [] t = "sub.a.test" -> 5
      [] t = "#" -> 35 [] t = ".png" -> 46 [] t = "/" -> 47 [] t = "?" -> 63
      [] t = "a" -> 97 [] t = "b" -> 98 [] t = "c" -> 99 [] t = "d" -> 100
      [] t = "e" -> 101 [] t = "f" -> 102 [] t = "g" -> 103 [] t = "h" -> 104
      [] t = "i" -> 105 [] t = "j" -> 106 [] t = "k" -> 107 [] t = "l" -> 108
      [] t = "x" -> 120 [] t = "y" -> 121
      [] OTHER -> 200

\* a < b as strings
RECURSIVE StrLess(_, _)
StrLess(a, b) ==
    IF b = <<>> THEN FALSE
    ELSE IF a = <<>> THEN TRUE
    ELSE IF Head(a) = Head(b) THEN StrLess(Tail(a), Tail(b))
    ELSE Rank(Head(a)) < Rank(Head(b))

\* a mutant of SortedArray: the elements in descending order
RECURSIVE DescendingArray(_)
DescendingArray(set) ==
    IF set = {} THEN <<>>
    ELSE LET m == CHOOSE x \in set : \A y \in set \ {x} : StrLess(y, x)
         IN  <<m>> \o DescendingArray(set \ {m})

\* Array.from(set).sort() (line 196)
RECURSIVE SortedArray(_)
SortedArray(set) ==
    IF set = {} THEN <<>>
    ELSE LET m == CHOOSE x \in set : \A y \in set \ {x} : StrLess(x, y)
         IN  <<m>> \o SortedArray(set \ {m})

\* generateSitemap (lines 166-180): one url entry per element, in order
generateSitemap(urls, now) ==
    [k \in 1..Len(urls) |-> [loc |-> urls[k], lastmod |-> now]]

\* the loc values of a document
Locs(xml) == {xml[k].loc : k \in 1..Len(xml)}

\* ------------------------------------------------------------------------
\* State
\* ------------------------------------------------------------------------

VARIABLES
    web,          \* the web being crawled (fixed for a behaviour)
    visitedUrls,  \* line 21
    allUrls,      \* line 22
    runs,         \* the calls of generateSitemapFile, by number
    nStarted,     \* how many calls of generateSitemapFile were made
    file,         \* public/sitemap.xml
    clock,        \* the value new Date() returns next
    alive,        \* the process has not died of an unhandled rejection
    arg,          \* a string given to normalizeUrl or isSameDomain
    res,          \* what normalizeUrl returned for arg, then for that result
    out           \* what another call made with arg returned

vars == <<web, visitedUrls, allUrls, runs, nStarted, file, clock, alive, arg, res, out>>

\* the variables of the normalizeUrl calls on their own
fnVars == <<arg, res, out>>

\* no call but those recorded in res was made
NoOut == [ kind |-> "none", base |-> <<>>, same |-> FALSE,
           key |-> <<>>, slash |-> <<>>, frag |-> <<>> ]

RunIds == 1..MaxRuns

\* A call of generateSitemapFile.
\*   pc      where it is suspended: "fetch" (line 67), "body" (line 85),
\*           "mkdir" (line 200), "write" (line 201), or "idle" (not called
\*           yet), "done" (resolved), "failed" (rejected)
\*   stack   the activations of crawlPage, innermost last; links is what the
\*           for loop of line 152 has still to iterate
\*   i       how many roots the loop of line 190 has started
\*   timer   the setTimeout of line 65 for the fetch of the innermost
\*           activation is pending
\*   xml     the document built at line 196
\*   fetched history: the URLs this call passed to fetch
\*   refetch history: how many times this call passed to fetch a URL that it
\*           had passed to fetch before
\*   okUrls  history: the URLs this call fetched and read as HTML
\*   allOk   history: no fetch of this call failed so far
\*   cleared history: another call cleared the sets while this one was crawling
\*   overlapped history: another call was crawling when this one started
\*   afterFailure history: an earlier call had failed when this one started
IdleRun ==
    [ pc |-> "idle", stack |-> <<>>, i |-> 0, timer |-> FALSE, xml |-> <<>>,
      fetched |-> {}, refetch |-> 0, okUrls |-> {}, allOk |-> TRUE, cleared |-> FALSE,
      overlapped |-> FALSE, afterFailure |-> FALSE ]

\* a call whose crawl is over: its history is dropped, but for allOk
Ended(pc, run) == [IdleRun EXCEPT !.pc = pc, !.allOk = run.allOk]

Top(run) == run.stack[Len(run.stack)]

\* the run with its innermost activation of crawlPage removed (a return)
Pop(run) == [run EXCEPT !.stack = SubSeq(run.stack, 1, Len(run.stack) - 1),
                        !.timer = FALSE]

Crawling(run) == run.pc \in {"fetch", "body"}

Finished(run) == run.pc \in {"done", "failed"}

\* ------------------------------------------------------------------------
\* crawlPage
\* ------------------------------------------------------------------------

\* A context is what one synchronous stretch of code reads and writes:
\* [vis, all, run].

\* visitedUrls.has(normalized) (line 54)
AlreadyVisited(vis, normalized) == normalized \in vis

\* a mutant of AddDiscovered: the URL is not added to allUrls
AddDiscoveredNothing(all, normalized) == all

\* allUrls.add(normalized) (line 59)
AddDiscovered(all, normalized) == all \cup {normalized}

\* crawlPage from its call to its first await (lines 51-70): either it
\* returns at line 55 (pc "ret") or it marks the URL and issues the fetch
crawlPageEnter(c, url, baseDomain, depth) ==
    LET normalized == normalizeUrl(url) IN
    IF \/ normalized = Null
       \/ AlreadyVisited(c.vis, normalized)
       \/ ~isSameDomain(normalized, baseDomain)
    THEN [c EXCEPT !.run.pc = "ret"]
    ELSE [c EXCEPT
            !.vis = @ \cup {normalized},
            !.all = AddDiscovered(@, normalized),
            !.run.pc = "fetch",
            !.run.timer = TRUE,
            !.run.fetched = @ \cup {normalized},
            !.run.refetch = IF normalized \in c.run.fetched THEN @ + 1 ELSE @,
            !.run.stack = Append(@, [ url |-> normalized, baseDomain |-> baseDomain,
                                      depth |-> depth, links |-> <<>> ])]

\* links.add(normalizedLink) on an insertion-ordered Set
AddLink(links, l) ==
    IF \E k \in 1..Len(links) : links[k] = l THEN links ELSE Append(links, l)

\* lines 88-147: the links of a page, each resolved (new URL(href, base).href),
\* normalized, and kept when in scope and not yet visited
RECURSIVE ExtractLinks(_, _, _, _)
ExtractLinks(hrefs, baseDomain, vis, links) ==
    IF hrefs = <<>> THEN links
    ELSE LET href == Head(hrefs)
             normalizedLink ==
                 IF IsValidURL(href) THEN normalizeUrl(Href(ParseURL(href))) ELSE Null
             keep == /\ normalizedLink # Null
                     /\ isSameDomain(normalizedLink, baseDomain)
                     /\ normalizedLink \notin vis
         IN  ExtractLinks(Tail(hrefs), baseDomain, vis,
                          IF keep THEN AddLink(links, normalizedLink) ELSE links)

\* a mutant of MoreRoots: the last root is not crawled
MoreRootsButLast(i) == i < Len(subdomains) - 1

\* the for loop of line 190 has another root to crawl
MoreRoots(i) == i < Len(subdomains)

\* The code that runs, without suspending, once a call of crawlPage has
\* returned to its caller: the loop of line 152 calls crawlPage for the next
\* link, or crawlPage returns (line 154 falls through); at the outermost level
\* the loop of line 190 calls crawlPage for the next root, or lines 196-200
\* build the document and call fs.mkdir.  It ends at the next fetch or at mkdir.
RECURSIVE Continue(_, _)
Continue(c, now) ==
    IF c.run.stack = <<>>
    THEN IF MoreRoots(c.run.i)
         THEN LET root == subdomains[c.run.i + 1]
                  c2 == crawlPageEnter([c EXCEPT !.run.i = @ + 1], root, root, 0)
              IN  IF c2.run.pc = "fetch" THEN c2 ELSE Continue(c2, now)
         ELSE [c EXCEPT !.run.pc = "mkdir",
                        !.run.xml = generateSitemap(SortedArray(c.all), now)]
    ELSE LET top == Top(c.run) IN
         IF top.links = <<>>
         THEN Continue([c EXCEPT !.run = Pop(c.run)], now)
         ELSE LET c1 == [c EXCEPT !.run.stack[Len(c.run.stack)].links = Tail(top.links)]
                  c2 == crawlPageEnter(c1, Head(top.links), top.baseDomain, top.depth + 1)
              IN  IF c2.run.pc = "fetch" THEN c2 ELSE Continue(c2, now)

\* the context of run r in the current state
Ctx(r) == [vis |-> visitedUrls, all |-> allUrls, run |-> runs[r]]

\* the state after run r executed up to context c
Commit(r, c) ==
    /\ visitedUrls' = c.vis
    /\ allUrls' = c.all
    /\ runs' = [runs EXCEPT ![r] = c.run]
    /\ clock' = IF c.run.pc = "mkdir" THEN clock + 1 ELSE clock

\* ------------------------------------------------------------------------
\* generateSitemapFile and the scheduler
\* ------------------------------------------------------------------------

\* lines 183-193 up to the first await: the sets are cleared and the crawl
\* of the first root begins
generateSitemapFile(r) ==
    LET others == [q \in RunIds |->
                     IF Crawling(runs[q]) THEN [runs[q] EXCEPT !.cleared = TRUE]
                     ELSE runs[q]]
        fresh  == [IdleRun EXCEPT !.pc = "ret",
                                  !.overlapped = \E q \in RunIds : Crawling(runs[q]),
                                  !.afterFailure = \E q \in RunIds : runs[q].pc = "failed"]
        c      == Continue([vis |-> {}, all |-> {}, run |-> fresh], clock)
    IN  /\ visitedUrls' = c.vis
        /\ allUrls' = c.all
        /\ runs' = [others EXCEPT ![r] = c.run]
        /\ clock' = IF c.run.pc = "mkdir" THEN clock + 1 ELSE clock
        /\ nStarted' = r
        /\ UNCHANGED <<web, file, alive, fnVars>>

\* line 208: the call at startup
Startup ==
    /\ nStarted = 0
    /\ generateSitemapFile(1)

\* the interval timer of line 211 is running and has ticks left in the model
TickDue ==
    /\ alive
    /\ nStarted >= 1
    /\ nStarted < MaxRuns

\* lines 211-213: the interval timer fires
Tick ==
    /\ TickDue
    /\ generateSitemapFile(nStarted + 1)

\* ------------------------------------------------------------------------
\* The fetch of crawlPage
\* ------------------------------------------------------------------------

\* crawlPage returns from inside its try block or from its catch block
\* (lines 76, 82, 156-162) and the caller goes on
ReturnFailed(r) ==
    Commit(r, Continue([Ctx(r) EXCEPT !.run = [Pop(runs[r]) EXCEPT !.allOk = FALSE]],
                       clock))

\* clearTimeout(timeoutId) (line 72), run when the response headers arrived
ClearTimeoutOnResponse(t) == FALSE

\* line 67 resolves with a 2xx text/html response; line 85 awaits the body
FetchHtml(r) ==
    /\ runs[r].pc = "fetch"
    /\ runs' = [runs EXCEPT ![r].pc = "body",
                            ![r].timer = ClearTimeoutOnResponse(@)]
    /\ UNCHANGED <<web, visitedUrls, allUrls, nStarted, file, clock, alive, fnVars>>

\* line 67 resolves with a non-2xx status (lines 74-77) or with a content
\* type that is not text/html (lines 79-83)
FetchSkipped(r) ==
    /\ runs[r].pc = "fetch"
    /\ ReturnFailed(r)
    /\ UNCHANGED <<web, nStarted, file, alive, fnVars>>

\* line 67 rejects with a network error (lines 156-162)
FetchError(r) ==
    /\ runs[r].pc = "fetch"
    /\ ReturnFailed(r)
    /\ UNCHANGED <<web, nStarted, file, alive, fnVars>>

\* the timer of line 65 fires: controller.abort() rejects the pending fetch,
\* or the pending body read, with an AbortError (lines 156-158)
FetchTimeout(r) ==
    /\ Crawling(runs[r])
    /\ runs[r].timer
    /\ ReturnFailed(r)
    /\ UNCHANGED <<web, nStarted, file, alive, fnVars>>

\* line 85 resolves: the links are extracted (lines 86-149) and crawled
BodyArrives(r) ==
    /\ runs[r].pc = "body"
    /\ LET top   == Top(runs[r])
           links == ExtractLinks(Page(web, top.url), top.baseDomain, visitedUrls, <<>>)
           run   == [runs[r] EXCEPT !.stack[Len(runs[r].stack)].links = links,
                                    !.okUrls = @ \cup {top.url},
                                    !.timer = FALSE]
       IN  Commit(r, Continue([Ctx(r) EXCEPT !.run = run], clock))
    /\ UNCHANGED <<web, nStarted, file, alive, fnVars>>

\* line 85 rejects: the connection broke while the body was read
BodyError(r) ==
    /\ runs[r].pc = "body"
    /\ ReturnFailed(r)
    /\ UNCHANGED <<web, nStarted, file, alive, fnVars>>

\* ------------------------------------------------------------------------
\* The completion step of generateSitemapFile
\* ------------------------------------------------------------------------

\* a mutant of CatchInstalled: the rejection is not handled
CatchMissing == FALSE

\* .catch(console.error) (lines 208 and 212): a rejected call is logged
CatchInstalled == TRUE

\* generateSitemapFile rejects (an await of lines 200-201 threw)
Reject(r) ==
    /\ runs' = [runs EXCEPT ![r] = Ended("failed", runs[r])]
    /\ alive' = (alive /\ CatchInstalled)

\* fs.mkdir resolves (line 200) and fs.writeFile is called (line 201): it
\* opens sitemap.xml with flag 'w', which truncates the file
MkdirDone(r) ==
    /\ runs[r].pc = "mkdir"
    /\ runs' = [runs EXCEPT ![r] = [Ended("write", runs[r]) EXCEPT !.i = runs[r].i,
                                                         !.xml = runs[r].xml]]
    /\ file' = [state |-> "truncated", xml |-> <<>>, by |-> r]
    /\ UNCHANGED <<web, visitedUrls, allUrls, nStarted, clock, alive, fnVars>>

\* fs.mkdir rejects
MkdirError(r) ==
    /\ runs[r].pc = "mkdir"
    /\ Reject(r)
    /\ UNCHANGED <<web, visitedUrls, allUrls, nStarted, file, clock, fnVars>>

\* fs.writeFile resolves (line 201): the document is in the file
WriteDone(r) ==
    /\ runs[r].pc = "write"
    /\ runs' = [runs EXCEPT ![r] = Ended("done", runs[r])]
    /\ file' = [state |-> "complete", xml |-> runs[r].xml, by |-> r]
    /\ UNCHANGED <<web, visitedUrls, allUrls, nStarted, clock, alive, fnVars>>

\* fs.writeFile rejects: the write failed on the truncated file
WriteError(r) ==
    /\ runs[r].pc = "write"
    /\ Reject(r)
    /\ UNCHANGED <<web, visitedUrls, allUrls, nStarted, file, clock, fnVars>>

\* ------------------------------------------------------------------------
\* Specification
\* ------------------------------------------------------------------------

\* the crawler before line 208 ran, against web w
InitCrawl(ws) ==
    /\ web \in ws
    /\ visitedUrls = {}
    /\ allUrls = {}
    /\ runs = [r \in RunIds |-> IdleRun]
    /\ nStarted = 0
    /\ file = [state |-> "missing", xml |-> <<>>, by |-> 0]
    /\ clock = 1
    /\ alive = TRUE

Init ==
    /\ InitCrawl(Webs)
    /\ arg = Null
    /\ res = <<>>
    /\ out = NoOut

RunStep(r) ==
    \/ FetchHtml(r)
    \/ FetchSkipped(r)
    \/ FetchError(r)
    \/ FetchTimeout(r)
    \/ BodyArrives(r)
    \/ BodyError(r)
    \/ MkdirDone(r)
    \/ MkdirError(r)
    \/ WriteDone(r)
    \/ WriteError(r)

Next ==
    \/ Startup
    \/ Tick
    \/ \E r \in RunIds : RunStep(r)

\* the program: the startup run, the interval timer, the runs' steps
Spec == Init /\ [][Next]_vars

\* ------------------------------------------------------------------------
\* One run on its own: the behaviours in which the timer does not fire
\* ------------------------------------------------------------------------

InitSolo ==
    /\ InitCrawl(SoloWebs)
    /\ arg = Null
    /\ res = <<>>
    /\ out = NoOut

NextSolo ==
    \/ Startup
    \/ RunStep(1)

SpecSolo == InitSolo /\ [][NextSolo]_vars

\* ------------------------------------------------------------------------
\* normalizeUrl on its own
\* ------------------------------------------------------------------------

\* the characters of the tails of the strings tried
TailChars == {"/", "x", "?", "#"}

\* the strings of TailChars of length n
RECURSIVE Tails(_)
Tails(n) ==
    IF n = 0 THEN {<<>>}
    ELSE Tails(n - 1) \cup {Append(t, c) : t \in Tails(n - 1), c \in TailChars}

\* the strings given to normalizeUrl: absolute URLs with a tail of at most
\* MaxTail characters, and strings that do not parse
Inputs ==
    {<<s, h>> \o t : s \in Schemes, h \in Hosts,
                     t \in {u \in Tails(MaxTail) : u = <<>> \/ u[1] \in Delims}}
      \cup {<<"x">>, <<"/", "x">>, <<"http://">>, <<>>}

InitFn ==
    /\ InitCrawl(Webs)
    /\ arg \in Inputs
    /\ res = <<>>
    /\ out = NoOut

\* normalizeUrl(arg)
Normalize ==
    /\ Len(res) = 0
    /\ res' = <<normalizeUrl(arg)>>
    /\ UNCHANGED <<web, visitedUrls, allUrls, runs, nStarted, file, clock, alive, arg, out>>

\* normalizeUrl of the result, when the first call returned a URL
NormalizeAgain ==
    /\ Len(res) = 1
    /\ res[1] # Null
    /\ res' = Append(res, normalizeUrl(res[1]))
    /\ UNCHANGED <<web, visitedUrls, allUrls, runs, nStarted, file, clock, alive, arg, out>>

\* the second arguments given to isSameDomain: the roots of the configuration,
\* the bare origins, and a string that does not parse
Bases ==
    {<<s, h>> : s \in Schemes, h \in Hosts} \cup {RootG, <<"x">>}

\* isSameDomain(arg, b)
SameDomain ==
    /\ out = NoOut
    /\ \E b \in Bases :
          out' = [NoOut EXCEPT !.kind = "isSameDomain", !.base = b,
                               !.same = isSameDomain(arg, b)]
    /\ UNCHANGED <<web, visitedUrls, allUrls, runs, nStarted, file, clock, alive, arg, res>>

\* normalizeUrl of arg, of arg + '/' and of arg + '#f'
NormalizeVariants ==
    /\ out = NoOut
    /\ out' = [NoOut EXCEPT !.kind = "variants",
                            !.key = normalizeUrl(arg),
                            !.slash = normalizeUrl(arg \o <<"/">>),
                            !.frag = normalizeUrl(arg \o <<"#", "f">>)]
    /\ UNCHANGED <<web, visitedUrls, allUrls, runs, nStarted, file, clock, alive, arg, res>>

NextFn ==
    \/ Normalize
    \/ NormalizeAgain
    \/ SameDomain
    \/ NormalizeVariants

SpecFn == InitFn /\ [][NextFn]_vars

TypeOK ==
    /\ web \in Webs \cup SoloWebs
    /\ nStarted \in 0..MaxRuns
    /\ alive \in BOOLEAN
    /\ \A r \in RunIds : runs[r].pc \in
         {"idle", "fetch", "body", "mkdir", "write", "done", "failed"}

\* ------------------------------------------------------------------------
\* The link graph of a web
\* ------------------------------------------------------------------------

\* the URLs crawlPage fetches for the links of page u when nothing is visited
Targets(w, u, baseDomain) ==
    LET links == ExtractLinks(Page(w, u), baseDomain, {}, <<>>)
    IN  {normalizeUrl(links[k]) : k \in 1..Len(links)} \ {Null}

\* the pages at most k hops from the root baseDomain, by links on its host
RECURSIVE Within(_, _, _)
Within(w, baseDomain, k) ==
    IF k = 0 THEN {normalizeUrl(baseDomain)}
    ELSE LET near == Within(w, baseDomain, k - 1)
         IN  near \cup UNION {Targets(w, u, baseDomain) : u \in near}

\* the least set that holds S and is closed under the links
RECURSIVE Closure(_, _, _)
Closure(w, baseDomain, S) ==
    LET T == S \cup UNION {Targets(w, u, baseDomain) : u \in S}
    IN  IF T = S THEN S ELSE Closure(w, baseDomain, T)

\* the pages reachable from some root by links that stay on that root's host
Reachable(w) ==
    UNION {Closure(w, subdomains[k], {normalizeUrl(subdomains[k])}) :
             k \in 1..Len(subdomains)}

\* the number of fetches run r has issued
FetchCount(r) == Cardinality(runs[r].fetched) + runs[r].refetch

\* the activations of crawlPage: each was pushed when its URL was marked visited
Frames == UNION {{runs[r].stack[k] : k \in 1..Len(runs[r].stack)} : r \in RunIds}

\* run r has ended its crawl and built its document (line 196)
Completing(r) == runs[r].pc = "mkdir"

\* ------------------------------------------------------------------------
\* Claims
\* ------------------------------------------------------------------------

\* C1: within one run no normalized URL is passed to fetch more than once,
\* whenever the interval timer fires.
C1_FetchedAtMostOnce == \A r \in RunIds : runs[r].refetch = 0

\* C2: a page 11 or more hops from its root is never marked visited, and a
\* page 10 hops from its root is visited by a run whose fetches all succeed.
C2_DepthLimit ==
    /\ \A f \in Frames : f.url \in Within(web, f.baseDomain, 10)
    /\ \A r \in RunIds :
         (Completing(r) /\ runs[r].allOk /\ ~runs[r].cleared)
            => \A k \in 1..Len(subdomains) : Within(web, subdomains[k], 10) \subseteq allUrls

C4_SameHostOnly ==
    /\ \A f \in Frames : ParseURL(f.url).hostname = ParseURL(f.baseDomain).hostname
    /\ \A u \in visitedUrls \cup allUrls : ParseURL(u).hostname = "a.test"
    /\ \A r \in RunIds :
         /\ \A u \in Locs(runs[r].xml) : ParseURL(u).hostname = "a.test"
         /\ (Completing(r) /\ RootA \in runs[r].okUrls /\ ~runs[r].cleared)
               => {RootA, PA("x")} \subseteq Locs(runs[r].xml)

\* C4 witness: a run has read the page of a.test, which links to b.test/y, and
\* built its document.
C4_CrossHostLinkSeen ==
    \E r \in RunIds :
        /\ web = "mixed"
        /\ Completing(r)
        /\ RootA \in runs[r].okUrls
        /\ ~runs[r].cleared
        /\ PA("x") \in Locs(runs[r].xml)

\* C5: a failed fetch ends only its own branch: the run still crawls every
\* root, reaches its completion step, and the document it writes lists every
\* URL it fetched and read successfully.
C5_FailureIsolated ==
    \A r \in RunIds :
        Completing(r) =>
            /\ runs[r].i = Len(subdomains)
            /\ runs[r].stack = <<>>
            /\ runs[r].okUrls \subseteq Locs(runs[r].xml)

\* C6: every fetch ends within the timeout whatever the server does: while a
\* run waits for the network, for the headers or for the body, the timer that
\* aborts the fetch is pending.
C6_FetchTimeBounded ==
    \A r \in RunIds : Crawling(runs[r]) => runs[r].timer

\* C7: when no fetch of any run has failed, a run ends its crawl with the
\* discovered set equal to the set of pages reachable from the roots on their
\* hosts.
C7_AllReachableDiscovered ==
    \A r \in RunIds :
        (Completing(r) /\ \A q \in RunIds : runs[q].allOk)
            => Locs(runs[r].xml) = Reachable(web)

\* C8: the number of fetches of a run is at most the number of distinct
\* in-scope normalized URLs of the link graph.
C8_FetchesBounded ==
    \A r \in RunIds : FetchCount(r) <= Cardinality(Reachable(web))

\* C9: normalizeUrl(normalizeUrl(u)) = normalizeUrl(u) for every valid URL u.
C9_Idempotent == Len(res) = 2 => res[2] = res[1]

\* C10: a run that fails at its completion step fails alone: the process stays
\* alive, no other run, neither set and not the file is touched, and while
\* ticks remain the interval timer is still due to start the next run.
C10_SchedulerIndependent ==
    [][\A r \in RunIds :
          (runs[r].pc # "failed" /\ runs'[r].pc = "failed") =>
             /\ alive'
             /\ \A q \in RunIds \ {r} : runs'[q] = runs[q]
             /\ UNCHANGED <<visitedUrls, allUrls, file, nStarted>>
             /\ (nStarted' \in 1..(MaxRuns - 1) => TickDue')]_vars

\* C10 witness: a run was started after an earlier run had failed at its
\* completion step.
C10_RunAfterFailure ==
    \E r \in RunIds : runs[r].pc # "idle" /\ runs[r].afterFailure

\* C11: no crawl state survives from one run into another: the document a run
\* builds at its completion lists exactly the URLs that this run itself marked
\* visited.
C11_OnlyOwnUrls ==
    \A r \in RunIds : Completing(r) => Locs(runs[r].xml) = runs[r].fetched

\* C12: isSameDomain(candidate, root) is true exactly when both strings parse
\* as URLs and their hosts are equal; the schemes play no part.
C12_SameHostIff ==
    out.kind = "isSameDomain" =>
        (out.same <=> /\ IsValidURL(arg)
                      /\ IsValidURL(out.base)
                      /\ arg[2] = out.base[2])

\* C12 witness: isSameDomain answered for an http URL and an https root of the
\* same host, for a URL of a subdomain of the root's host, and for a string
\* that does not parse.
C12_SchemesDiffer ==
    /\ out.kind = "isSameDomain"
    /\ IsValidURL(arg)
    /\ IsValidURL(out.base)
    /\ arg[1] # out.base[1]
    /\ out.same

\* the string has no query and no fragment
PlainPath(s) == FirstIn(s, 3, {"?", "#"}) > Len(s)

\* C13: for a valid URL, normalizeUrl returns a string without fragment; for a
\* URL that is only scheme, host and path it returns the URL less one trailing
\* "/" (one, not every one); a URL, the URL with a trailing "/" added and the
\* URL with a fragment added have the same key; and for a string that does not
\* parse it returns null.
C13_SameKey ==
    out.kind = "variants" =>
        IF IsValidURL(arg)
        THEN /\ out.key # Null
             /\ \A k \in 1..Len(out.key) : out.key[k] # "#"
             /\ (PlainPath(arg) /\ Len(arg) >= 3) =>
                    out.key = IF arg[Len(arg)] = "/" THEN SubSeq(arg, 1, Len(arg) - 1) ELSE arg
             /\ (PlainPath(arg) /\ Len(arg) = 2) => out.key = arg
             /\ (PlainPath(arg) /\ ~EndsWithSlash(arg)) => out.slash = out.key
             /\ FirstIn(arg, 3, {"#"}) > Len(arg) => out.frag = out.key
        ELSE out.key = Null

\* C13 witness: normalizeUrl was called for a URL with a path, for that URL
\* with a trailing "/" and for that URL with a fragment, and gave one key.
C13_ThreeSpellings ==
    /\ out.kind = "variants"
    /\ IsValidURL(arg)
    /\ PlainPath(arg)
    /\ Len(arg) >= 4
    /\ ~EndsWithSlash(arg)
    /\ out.key = arg
    /\ out.slash = arg
    /\ out.frag = arg

\* the document has one entry for each URL of the set and no other entry, its
\* entries ascend in string order, and they carry one lastmod
DocumentOf(xml, set) ==
    /\ Locs(xml) = set
    /\ Len(xml) = Cardinality(set)
    /\ \A k \in 1..(Len(xml) - 1) : StrLess(xml[k].loc, xml[k + 1].loc)
    /\ \A j, k \in 1..Len(xml) : xml[j].lastmod = xml[k].lastmod

\* C14: the document a run builds when its crawl has ended is the document of
\* the discovered set as it then is (one entry per URL, ascending, one
\* lastmod), and a completed write puts that document in the file.
C14_SortedDocument ==
    [][/\ \A r \in RunIds :
            (runs[r].pc # "mkdir" /\ runs'[r].pc = "mkdir")
               => DocumentOf(runs'[r].xml, allUrls')
       /\ (file' # file /\ file'.state = "complete")
               => /\ file'.xml = runs[file'.by].xml
                  /\ DocumentOf(file'.xml, Locs(file'.xml))]_vars

\* C14 witness: a document of three URLs was written to the file.
C14_ThreeEntriesWritten ==
    /\ file.state = "complete"
    /\ Len(file.xml) = 3

\* C15: at most one run has a fetch in flight (the request or the read of its
\* body), also when the interval timer fires during a crawl.
C15_OneFetchInFlight ==
    Cardinality({r \in RunIds : Crawling(runs[r])}) <= 1

\* run r is between the clear at its start and the end of its write
InProgress(r) == runs[r].pc \in {"fetch", "body", "mkdir", "write"}

\* C16: while a run is in progress no step removes a URL from visitedUrls or
\* from allUrls.
C16_SetsOnlyGrow ==
    [][(\E r \in RunIds : InProgress(r))
          => (visitedUrls \subseteq visitedUrls' /\ allUrls \subseteq allUrls')]_vars

\* the link has a fragment marker
HasFragment(l) == \E k \in 1..Len(l) : l[k] = "#"

\* the link ends in the extension of a file that is not a page
HasExtension(l) == Len(l) > 0 /\ l[Len(l)] \in {".png"}

\* C17: every discovered URL is a root or the target of a link, on a page of
\* the web, that has no fragment marker and no non-page extension.
C17_AssetLinksDropped ==
    \A u \in allUrls :
        \/ \E k \in 1..Len(subdomains) : u = normalizeUrl(subdomains[k])
        \/ \E p \in Reachable(web) : \E k \in 1..Len(Page(web, p)) :
              LET l == Page(web, p)[k]
              IN  /\ ~HasFragment(l)
                  /\ ~HasExtension(l)
                  /\ u \in {normalizeUrl(l), normalizeUrl(normalizeUrl(l))}

\* C18: the sitemap file is never seen empty or partly written: once a write
\* has begun the file holds a complete document.
C18_NeverTruncated == file.state # "truncated"

\* C19: allUrls and visitedUrls are equal in every state.
C19_SetsEqual == allUrls = visitedUrls

\* C19 witness: URLs were added to the sets after a second run had cleared
\* them under a crawl in progress.
C19_RefilledAfterClear ==
    /\ nStarted = 2
    /\ \E r \in RunIds : runs[r].cleared
    /\ Cardinality(visitedUrls) >= 2

\* C20: the URL of a pending fetch is in both sets, and the document a run
\* builds at its completion lists every URL whose fetch failed or was skipped
\* in that run.
C20_FailedUrlStaysListed ==
    \A r \in RunIds :
        /\ Crawling(runs[r]) => Top(runs[r]).url \in visitedUrls \cap allUrls
        /\ Completing(r) => (runs[r].fetched \ runs[r].okUrls) \subseteq Locs(runs[r].xml)
====
